---- MODULE Spec2Model ----
(***************************************************************************)
(* The interactive 3D viewport of cad3dify (AdvancedViewer.tsx): the orbit *)
(* camera driven by pointer and wheel input, the scene graph with the      *)
(* displayed-geometry group, the view-state toggles and the frame loop.    *)
(*                                                                         *)
(* Numbers are fixed point: lengths and angles are integers in units of    *)
(* 1/Scale (10^-4 scene units, 10^-4 rad).  Products are formed so that    *)
(* no intermediate value leaves the 32-bit range.                          *)
(***************************************************************************)
EXTENDS Integers, Sequences, FiniteSets

VARIABLES
    phase,          \* "rendered" (effect not yet run), "mounted", "unmounted"
    \* the environment of the component
    modelUrl,       \* the modelUrl prop
    rect,           \* canvas.getBoundingClientRect(): <<width, height>>
    devicePixelRatio,
    \* controlsRef.current
    mouseX, mouseY, isMouseDown, rotationX, rotationY, zoom,
    \* the camera object
    cameraPosition, \* camera.position
    lookAtOrigin,   \* the camera's orientation points at the world origin
    aspect,         \* camera.aspect, in thousandths
    \* the renderer
    rendererSize,   \* <<width, height>> of the drawing surface
    pixelRatio,
    disposed,       \* renderer.dispose() was called
    renders,        \* calls of renderer.render
    renderedYaw,    \* the yaw the displayed geometry had in the last render
    \* React state
    viewMode, showGrid, showAxes,
    \* the scene graph: the children of sceneRef.current
    scene,
    nModels,        \* displayed-geometry groups created so far
    \* the frame loop
    frameRef,       \* frameRef.current, 0 while undefined
    rafQueue,       \* callbacks requestAnimationFrame holds, oldest first
    nextHandle,     \* the handle the next requestAnimationFrame returns
    listeners,      \* event listeners registered on the canvas and the window
    \* the input still to come, and its history
    moveBudget,     \* dragging pointer moves the environment will still deliver
    awayBudget,     \* wheel-away events the environment will still deliver
    towardBudget,   \* wheel-toward events the environment will still deliver
    frameBudget,    \* animation frames the display will still deliver
    modelBudget,    \* replacements of the displayed geometry still to come
    awayRun,        \* wheel-away events in a row since zoom was set to 10,
                    \* -1 once a wheel-toward event broke the run
    sized,          \* updateSize has seen a container of non-zero area
    \* the host of the viewer and the platform
    component,      \* "AdvancedViewer", or "CadProcessor" with its own copy
                    \* of the mount effect
    webgl,          \* a WebGL context can be created on the canvas
    isViewerReady,  \* CadProcessor's state; AdvancedViewer has none
    isFullscreen,   \* React state
    fullscreenElement, \* document.fullscreenElement: "none" or "canvas"
    gpu,            \* geometries and materials constructed and not disposed
    peer,           \* a second instance of the component in the same document
    modeBudget,     \* view-mode changes still to come
    peerBudget,     \* mounts of a second instance still to come
    \* the workspace around the viewer (demo mode)
    activePanel,    \* "chat", "projects" or "library"
    projects,       \* the project list on display: ids, newest first
    currentProject, \* the id of the current project, 0 for null
    messages,       \* the ids of the chat messages, oldest first
    clock,          \* Date.now()
    pending,        \* messages the running demo processing still adds
    createBudget,   \* projects still to be created
    runBudget       \* demo processing runs still to be started

envVars == <<modelUrl, rect, devicePixelRatio>>
ctlVars == <<mouseX, mouseY, isMouseDown, rotationX, rotationY, zoom>>
camVars == <<cameraPosition, lookAtOrigin>>
sizeVars == <<aspect, rendererSize, pixelRatio, sized>>
flagVars == <<viewMode, showGrid, showAxes>>
loopVars == <<frameRef, rafQueue, nextHandle, renders, renderedYaw>>
inputBudgets == <<moveBudget, awayBudget, towardBudget>>
sceneBudgets == <<frameBudget, modelBudget>>
hostVars == <<component, webgl, isViewerReady>>
fullscreenVars == <<isFullscreen, fullscreenElement>>
workspaceVars == <<activePanel, projects, currentProject, messages, clock,
                   pending, createBudget, runBudget>>
\* what the handlers of one mounted viewer leave alone
sessionVars == <<hostVars, fullscreenVars, peer, peerBudget, workspaceVars>>
\* what the camera handlers leave alone
restOfViewer == <<phase, envVars, sizeVars, disposed, flagVars, scene, nModels,
                  loopVars, listeners, sceneBudgets, gpu, modeBudget,
                  sessionVars>>
\* what the view-state handlers leave alone
restOfCamera == <<ctlVars, camVars, inputBudgets, awayRun>>
\* the viewer: what the handlers of the workspace leave alone
viewerVars == <<phase, envVars, ctlVars, camVars, sizeVars, disposed, flagVars,
                scene, nModels, loopVars, listeners, inputBudgets, sceneBudgets,
                awayRun, gpu, modeBudget, hostVars, fullscreenVars, peer,
                peerBudget>>
vars == <<phase, envVars, ctlVars, camVars, sizeVars, disposed, flagVars, scene,
          nModels, loopVars, listeners, inputBudgets, sceneBudgets, awayRun,
          gpu, modeBudget, sessionVars>>

----------------------------------------------------------------------------
(* Bounds of the model *)
MaxMove == 1       \* dragging pointer moves
MaxAway == 17      \* wheel-away events of a long zoom-out
MaxToward == 12    \* wheel-toward events of a long zoom-in
MaxMixed == 2      \* wheel events of each direction of a short mixed run
MaxFrames == 3     \* animation frames
MaxModels == 2     \* replacements of the displayed geometry
MaxModes == 3      \* view-mode changes
MaxPeerMounts == 2 \* mounts of a second instance
MaxPairWheel == 1  \* wheel events of each direction beside a second instance
                   \* or between frames
MaxPairFrames == 2 \* animation frames beside a second instance or between
                   \* camera input
MaxPairModes == 1  \* view-mode changes beside a second instance
MaxCreates == 2    \* projects created in the workspace
MaxRuns == 1       \* demo processing runs

(* Fixed-point arithmetic *)
Scale == 10 ^ 4
Pi == 31416
HalfPi == Pi \div 2
TwoPi == 2 * Pi

Max(a, b) == IF a >= b THEN a ELSE b
Min(a, b) == IF a <= b THEN a ELSE b

\* floor(a * b / Scale) for |a| < 10^6, |b| <= 2 * Scale
Mul(a, b) == (a \div Scale) * b + ((a % Scale) * b) \div Scale

\* cos on [-pi/2, pi/2]: 1 - x^2/2 (1 - x^2/12 (1 - x^2/30 (1 - x^2/56)))
CosSeries(x) ==
    LET x2 == Mul(x, x)
        t4 == Scale - x2 \div 56
        t3 == Scale - Mul(x2, t4) \div 30
        t2 == Scale - Mul(x2, t3) \div 12
    IN  Scale - Mul(x2, t2) \div 2

\* sin on [-pi/2, pi/2]: x (1 - x^2/6 (1 - x^2/20 (1 - x^2/42 (1 - x^2/72))))
SinSeries(x) ==
    LET x2 == Mul(x, x)
        t4 == Scale - x2 \div 72
        t3 == Scale - Mul(x2, t4) \div 42
        t2 == Scale - Mul(x2, t3) \div 20
        t1 == Scale - Mul(x2, t2) \div 6
    IN  Mul(x, t1)

\* the angle brought into [-pi, pi)
Wrap(x) == ((x + Pi) % TwoPi) - Pi

\* Math.cos
Cos(x) ==
    LET w == Wrap(x)
    IN  IF w > HalfPi THEN 0 - CosSeries(Pi - w)
        ELSE IF w < 0 - HalfPi THEN 0 - CosSeries(0 - Pi - w)
        ELSE CosSeries(w)

\* Math.sin
Sin(x) ==
    LET w == Wrap(x)
    IN  IF w > HalfPi THEN SinSeries(Pi - w)
        ELSE IF w < 0 - HalfPi THEN SinSeries(0 - Pi - w)
        ELSE SinSeries(w)

----------------------------------------------------------------------------
(* Camera rig *)

\* pointer positions the events carry (clientX, clientY), in px
Pointers == {<<0, 0>>, <<100, 0>>, <<0, 200>>}
\* WheelEvent.deltaY
WheelDeltas == {-100, 0, 100}

Sensitivity == 80                 \* 0.008 rad per px
ElevMax == (Pi * 10) \div 22      \* Math.PI / 2.2
ZoomMin == 3 * Scale
ZoomMax == 50 * Scale
ZoomStart == 10 * Scale
StartPosition == <<10 * Scale, 10 * Scale, 10 * Scale>>

\* the spherical position of (rotationY, rotationX, radius)
Target(rotY, rotX, radius) ==
    << Mul(Mul(radius, Cos(rotY)), Cos(rotX)),
       Mul(radius, Sin(rotX)),
       Mul(Mul(radius, Sin(rotY)), Cos(rotX)) >>

\* p is the spherical position of the rig's current state, so that a change
\* of the radius alone moves it along the ray from the origin through p
OnRigRay(p) == p = Target(rotationY, rotationX, zoom)

\* the position set to the target at once
Lerp_Jump(p, v) == v

\* Vector3.lerp(v, alpha) with alpha = 0.1
Lerp(p, v) == [i \in 1..3 |-> p[i] + (v[i] - p[i]) \div 10]

\* the clamp of rotationX with its lower bound forgotten
ClampElevation_NoFloor(x) == Min(ElevMax, x)

\* the clamp of rotationX
ClampElevation(x) == Max(0 - ElevMax, Min(ElevMax, x))

\* the clamp of zoom with its ceiling forgotten
ClampZoom_NoCeiling(z) == Max(ZoomMin, z)

\* the clamp of zoom
ClampZoom(z) == Max(ZoomMin, Min(ZoomMax, z))

\* a wheel-away step of 1.2 instead of 1.1
WheelScale_Coarse(deltaY) == IF deltaY > 0 THEN 12 ELSE 9

\* the scale of one wheel event, in tenths
WheelScale(deltaY) == IF deltaY > 0 THEN 11 ELSE 9

\* an event of that type reaches a handler of this viewer: its listener is
\* registered (a listener is <<owner, target, type, handler>>, and this
\* viewer's closures are those of owner 0)
Registered(type) == \E l \in listeners : l[1] = 0 /\ l[3] = type

\* handleMouseDown that stops the idle rotation
handleMouseDown_StopsRotation(x, y) ==
    /\ Registered("mousedown")
    /\ isMouseDown' = TRUE
    /\ mouseX' = x
    /\ mouseY' = y
    /\ rafQueue' = SelectSeq(rafQueue, LAMBDA cb : cb.fn # "animateModel")
    /\ UNCHANGED <<rotationX, rotationY, zoom, camVars, inputBudgets, awayRun,
                   phase, envVars, sizeVars, disposed, flagVars, scene, nModels,
                   frameRef, nextHandle, renders, renderedYaw, listeners,
                   sceneBudgets, gpu, modeBudget, sessionVars>>

handleMouseDown(x, y) ==
    /\ Registered("mousedown")
    /\ isMouseDown' = TRUE
    /\ mouseX' = x
    /\ mouseY' = y
    /\ UNCHANGED <<rotationX, rotationY, zoom, camVars, inputBudgets, awayRun,
                   restOfViewer>>

\* handleMouseMove without the test of isMouseDown
handleMouseMove_Unguarded(x, y) ==
    /\ Registered("mousemove")
    /\ moveBudget > 0
    /\ LET rotY == rotationY + (x - mouseX) * Sensitivity
           rotX == ClampElevation(rotationX + (y - mouseY) * Sensitivity)
       IN  /\ rotationY' = rotY
           /\ rotationX' = rotX
           /\ cameraPosition' = Lerp(cameraPosition, Target(rotY, rotX, zoom))
    /\ lookAtOrigin' = TRUE
    /\ mouseX' = x
    /\ mouseY' = y
    /\ moveBudget' = moveBudget - 1
    /\ UNCHANGED <<isMouseDown, zoom, awayBudget, towardBudget, awayRun,
                   restOfViewer>>

handleMouseMove(x, y) ==
    /\ Registered("mousemove")
    /\ IF ~isMouseDown
       THEN UNCHANGED vars
       ELSE /\ moveBudget > 0
            /\ LET rotY == rotationY + (x - mouseX) * Sensitivity
                   rotX == ClampElevation(rotationX + (y - mouseY) * Sensitivity)
               IN  /\ rotationY' = rotY
                   /\ rotationX' = rotX
                   /\ cameraPosition' = Lerp(cameraPosition, Target(rotY, rotX, zoom))
            /\ lookAtOrigin' = TRUE
            /\ mouseX' = x
            /\ mouseY' = y
            /\ moveBudget' = moveBudget - 1
            /\ UNCHANGED <<isMouseDown, zoom, awayBudget, towardBudget, awayRun,
                           restOfViewer>>

\* mouseup and mouseleave
handleMouseUp ==
    /\ Registered("mouseup") \/ Registered("mouseleave")
    /\ isMouseDown' = FALSE
    /\ UNCHANGED <<mouseX, mouseY, rotationX, rotationY, zoom, camVars,
                   inputBudgets, awayRun, restOfViewer>>

handleWheel(deltaY) ==
    /\ Registered("wheel")
    /\ IF deltaY > 0 THEN awayBudget > 0 ELSE towardBudget > 0
    /\ zoom' = ClampZoom((zoom * WheelScale(deltaY)) \div 10)
    /\ cameraPosition' = Target(rotationY, rotationX, zoom')
    /\ awayBudget' = IF deltaY > 0 THEN awayBudget - 1 ELSE awayBudget
    /\ towardBudget' = IF deltaY > 0 THEN towardBudget ELSE towardBudget - 1
    /\ awayRun' = IF deltaY > 0 /\ awayRun >= 0 THEN awayRun + 1 ELSE 0 - 1
    \* position.set leaves the orientation as the last lookAt set it: the
    \* camera still points at the origin only if it moved along its own ray
    /\ lookAtOrigin' = (lookAtOrigin /\ OnRigRay(cameraPosition))
    /\ UNCHANGED <<mouseX, mouseY, isMouseDown, rotationX, rotationY,
                   moveBudget, restOfViewer>>

\* resetView with the reset of zoom forgotten
resetView_KeepsZoom ==
    /\ phase = "mounted"
    /\ rotationX' = 0
    /\ rotationY' = 0
    /\ cameraPosition' = StartPosition
    /\ lookAtOrigin' = TRUE
    /\ UNCHANGED <<mouseX, mouseY, isMouseDown, zoom, inputBudgets, awayRun,
                   restOfViewer>>

resetView ==
    /\ phase = "mounted"
    /\ rotationX' = 0
    /\ rotationY' = 0
    /\ zoom' = ZoomStart
    /\ cameraPosition' = StartPosition
    /\ lookAtOrigin' = TRUE
    /\ awayRun' = 0
    /\ UNCHANGED <<mouseX, mouseY, isMouseDown, inputBudgets, restOfViewer>>

----------------------------------------------------------------------------
(* Scene graph *)

IdleStep == 50                    \* 0.005 rad per tick
HoleCount == 8

\* the parameters of a material: those the source sets, the others at
\* three.js' defaults (tenths)
Params(kind, color) ==
    [kind |-> kind, color |-> color, metalness |-> 0, roughness |-> 10,
     clearcoat |-> 0, clearcoatRoughness |-> 0, wireframe |-> FALSE,
     size |-> 10, opacity |-> 10, transparent |-> FALSE]

\* the materials the source constructs, by the name of the variable or of the
\* view mode they are constructed for; a node holds the name
Material(m) ==
    CASE m = "mainMaterial" ->
            [Params("MeshPhysicalMaterial", "0x6366f1") EXCEPT
                !.metalness = 2, !.roughness = 1, !.clearcoat = 8,
                !.clearcoatRoughness = 1]
      [] m = "flangeMaterial" ->
            [Params("MeshPhysicalMaterial", "0x8b5cf6") EXCEPT
                !.metalness = 3, !.roughness = 2]
      [] m = "holeMaterial" ->
            [Params("MeshPhysicalMaterial", "0x1e293b") EXCEPT
                !.metalness = 8, !.roughness = 1]
      [] m = "wireframe" ->
            [Params("MeshBasicMaterial", "0x6366f1") EXCEPT !.wireframe = TRUE]
      [] m = "points" ->
            [Params("PointsMaterial", "0x6366f1") EXCEPT !.size = 1]
      [] m = "solid" ->
            [Params("MeshPhysicalMaterial", "0x6366f1") EXCEPT
                !.metalness = 2, !.roughness = 1]
      [] m = "gridMaterial" ->
            [Params("LineBasicMaterial", "vertexColors") EXCEPT
                !.opacity = 6, !.transparent = TRUE]
      [] m = "axesMaterial" -> Params("LineBasicMaterial", "vertexColors")
      [] OTHER -> Params("none", "")

\* an Object3D
Node(name, type) ==
    [name |-> name, type |-> type, visible |-> TRUE, material |-> "",
     children |-> <<>>, id |-> 0, rotationY |-> 0]

Mesh(material) == [Node("", "Mesh") EXCEPT !.material = material]

gridHelper == [Node("grid", "LineSegments") EXCEPT !.material = "gridMaterial"]

axesHelper == [Node("axes", "LineSegments") EXCEPT !.material = "axesMaterial"]

\* the scene as the mount effect builds it, before the model is added
BaseScene ==
    << Node("", "AmbientLight"), Node("", "DirectionalLight"),
       Node("", "DirectionalLight"), Node("", "PointLight"),
       gridHelper, axesHelper >>

\* the placeholder group: body, two flanges, a ring of bolt holes
DefaultGroup(id) ==
    [Node("cadModel", "Group") EXCEPT
        !.id = id,
        !.children =
            << Mesh("mainMaterial"), Mesh("flangeMaterial"), Mesh("flangeMaterial") >>
            \o [i \in 1..HoleCount |-> Mesh("holeMaterial")]]

\* createDefaultModel without the removal of the existing groups
WithDefaultModel_NoRemove(sc, id) == Append(sc, DefaultGroup(id))

\* createDefaultModel up to scene.add: the children named cadModel removed,
\* the new group added
WithDefaultModel(sc, id) ==
    Append(SelectSeq(sc, LAMBDA c : c.name # "cadModel"), DefaultGroup(id))

\* if (modelUrl): undefined and the empty string are falsy
Truthy(url) == url \notin {"undefined", ""}

\* loadModel that builds nothing
LoadModel_Nothing(url, sc, id) == sc

\* loadModel(url) builds the default model whatever the url
LoadModel(url, sc, id) == WithDefaultModel(sc, id)

\* the model the mount effect and replaceDisplayedGeometry put in the scene
WithModel(url, sc, id) ==
    IF Truthy(url) THEN LoadModel(url, sc, id) ELSE WithDefaultModel(sc, id)

\* group.parent is set: the group is a child of the scene
HasParent(sc, g) == \E i \in DOMAIN sc : sc[i].id = g /\ sc[i].name = "cadModel"

\* group.rotation.y of the displayed geometry, 0 if the scene has none
Yaw(sc) ==
    IF \E i \in DOMAIN sc : sc[i].name = "cadModel"
    THEN sc[CHOOSE i \in DOMAIN sc : sc[i].name = "cadModel"].rotationY
    ELSE 0

\* group.rotation.y = time
WithYaw(sc, g, time) ==
    [i \in DOMAIN sc |->
        IF sc[i].id = g /\ sc[i].name = "cadModel"
        THEN [sc[i] EXCEPT !.rotationY = time] ELSE sc[i]]

\* scene.getObjectByName: the index of the first child of that name, 0 if none
IndexByName(sc, name) ==
    IF \E i \in DOMAIN sc : sc[i].name = name
    THEN CHOOSE i \in DOMAIN sc :
            /\ sc[i].name = name
            /\ \A j \in DOMAIN sc : sc[j].name = name => i <= j
    ELSE 0

\* the cycle run the other way round
NextMode_Swapped(mode) ==
    IF mode = "solid" THEN "points"
    ELSE IF mode = "points" THEN "wireframe" ELSE "solid"

\* the cycle of view modes
NextMode(mode) ==
    IF mode = "solid" THEN "wireframe"
    ELSE IF mode = "wireframe" THEN "points" ELSE "solid"

\* the material toggleViewMode constructs for a mesh: that of the new mode
ModeMaterial(mode) == mode

\* the test of the traversal on the material instead of the type
Restyled_AnyWithMaterial(node) == node.material # ""

\* the test of the traversal: a mesh that is neither the grid nor the axes
Restyled(node) ==
    node.type = "Mesh" /\ node.name # "grid" /\ node.name # "axes"

\* scene.traverse of toggleViewMode on one node and its descendants
RECURSIVE Traverse(_, _)
Traverse(node, mode) ==
    LET own == IF Restyled(node)
               THEN [node EXCEPT !.material = ModeMaterial(mode)] ELSE node
    IN  [own EXCEPT !.children =
            [i \in DOMAIN node.children |-> Traverse(node.children[i], mode)]]

\* the nodes of a list of subtrees for which the traversal constructs a
\* material
RECURSIVE RestyledCount(_)
RestyledCount(nodes) ==
    IF nodes = <<>> THEN 0
    ELSE (IF Restyled(Head(nodes)) THEN 1 ELSE 0)
         + RestyledCount(Head(nodes).children) + RestyledCount(Tail(nodes))

\* what createDefaultModel constructs for one group: the geometry and the
\* material of the body, of the flanges and of the bolt holes
ModelResources == [geometries |-> 3, materials |-> 3]

\* the resources of one more displayed-geometry group; those of the group it
\* replaces are not disposed
WithModelResources(g) ==
    [geometries |-> g.geometries + ModelResources.geometries,
     materials |-> g.materials + ModelResources.materials]

----------------------------------------------------------------------------
(* Size of the drawing surface *)

Rects == {<<0, 0>>, <<640, 480>>, <<1280, 0>>}
PixelRatios == {1, 3}
FallbackWidth == 800
FallbackHeight == 600
MaxPixelRatio == 2

\* rect.width || 800, rect.height || 600
SurfaceSize(r) ==
    << IF r[1] = 0 THEN FallbackWidth ELSE r[1],
       IF r[2] = 0 THEN FallbackHeight ELSE r[2] >>

\* width / height, in thousandths
AspectOf(size) == (size[1] * 1000) \div size[2]

\* updateSize that returns early on a container of zero area
updateSize_SkipZeroArea(r, d) ==
    IF r[1] = 0 \/ r[2] = 0
    THEN UNCHANGED sizeVars
    ELSE /\ rendererSize' = r
         /\ pixelRatio' = Min(d, MaxPixelRatio)
         /\ aspect' = AspectOf(r)
         /\ sized' = TRUE

\* updateSize with the canvas at rectangle r and device pixel ratio d
updateSize(r, d) ==
    /\ rendererSize' = SurfaceSize(r)
    /\ pixelRatio' = Min(d, MaxPixelRatio)
    /\ aspect' = AspectOf(SurfaceSize(r))
    /\ sized' = (sized \/ (r[1] > 0 /\ r[2] > 0))

\* the window is resized: the layout gives the canvas a new rectangle
handleResize(r, d) ==
    /\ Registered("resize")
    /\ rect' = r
    /\ devicePixelRatio' = d
    /\ updateSize(r, d)
    /\ UNCHANGED <<phase, modelUrl, disposed, flagVars, scene, nModels, loopVars,
                   listeners, sceneBudgets, restOfCamera, gpu, modeBudget,
                   sessionVars>>

----------------------------------------------------------------------------
(* Frame loop *)

Callback(handle, fn, group, time) ==
    [handle |-> handle, fn |-> fn, group |-> group, time |-> time]

\* animateModel that advances the angle by two increments
RunCallback_TwoSteps(cb, st) ==
    CASE cb.fn = "animateModel" ->
            IF HasParent(st.scene, cb.group)
            THEN [st EXCEPT
                    !.scene = WithYaw(st.scene, cb.group, cb.time + 2 * IdleStep),
                    !.queue = Append(@, Callback(st.next, "animateModel", cb.group,
                                                 cb.time + 2 * IdleStep)),
                    !.next = @ + 1]
            ELSE st
      [] cb.fn = "animate" ->
            [st EXCEPT
                !.frameRef = st.next,
                !.queue = Append(@, Callback(st.next, "animate", 0, 0)),
                !.next = @ + 1,
                !.renders = @ + 1,
                !.renderedYaw = Yaw(st.scene)]
      [] cb.fn = "peer.animateModel" ->
            [st EXCEPT
                !.peer.yaw = IF cb.group = st.peer.generation
                             THEN cb.time + IdleStep ELSE @,
                !.queue = Append(@, Callback(st.next, "peer.animateModel",
                                             cb.group, cb.time + IdleStep)),
                !.next = @ + 1]
      [] cb.fn = "peer.animate" ->
            [st EXCEPT
                !.peer.frameRef = st.next,
                !.peer.renders = @ + 1,
                !.queue = Append(@, Callback(st.next, "peer.animate", cb.group, 0)),
                !.next = @ + 1]

\* one callback of a frame, on the state st the callbacks before it left;
\* the callbacks of the second instance work on its scene and its refs (the
\* group of a second instance is never removed from its scene)
RunCallback(cb, st) ==
    CASE cb.fn = "animateModel" ->
            IF HasParent(st.scene, cb.group)
            THEN [st EXCEPT
                    !.scene = WithYaw(st.scene, cb.group, cb.time + IdleStep),
                    !.queue = Append(@, Callback(st.next, "animateModel", cb.group,
                                                 cb.time + IdleStep)),
                    !.next = @ + 1]
            ELSE st
      [] cb.fn = "animate" ->
            [st EXCEPT
                !.frameRef = st.next,
                !.queue = Append(@, Callback(st.next, "animate", 0, 0)),
                !.next = @ + 1,
                !.renders = @ + 1,
                !.renderedYaw = Yaw(st.scene)]
      [] cb.fn = "peer.animateModel" ->
            [st EXCEPT
                !.peer.yaw = IF cb.group = st.peer.generation
                             THEN cb.time + IdleStep ELSE @,
                !.queue = Append(@, Callback(st.next, "peer.animateModel",
                                             cb.group, cb.time + IdleStep)),
                !.next = @ + 1]
      [] cb.fn = "peer.animate" ->
            [st EXCEPT
                !.peer.frameRef = st.next,
                !.peer.renders = @ + 1,
                !.queue = Append(@, Callback(st.next, "peer.animate", cb.group, 0)),
                !.next = @ + 1]

RECURSIVE RunFrame(_, _)
RunFrame(q, st) ==
    IF q = <<>> THEN st ELSE RunFrame(Tail(q), RunCallback(Head(q), st))

\* the display refreshes: every callback requested before the frame runs once
Frame ==
    /\ rafQueue # <<>>
    /\ frameBudget > 0
    /\ LET st == RunFrame(rafQueue,
                          [scene |-> scene, queue |-> <<>>, next |-> nextHandle,
                           frameRef |-> frameRef, renders |-> renders,
                           renderedYaw |-> renderedYaw,
                           peer |-> peer])
       IN  /\ scene' = st.scene
           /\ rafQueue' = st.queue
           /\ nextHandle' = st.next
           /\ frameRef' = st.frameRef
           /\ renders' = st.renders
           /\ renderedYaw' = st.renderedYaw
           /\ peer' = st.peer
    /\ frameBudget' = frameBudget - 1
    /\ UNCHANGED <<phase, envVars, sizeVars, disposed, flagVars, nModels, listeners,
                   modelBudget, restOfCamera, gpu, modeBudget, hostVars, workspaceVars,
                   fullscreenVars, peerBudget>>

----------------------------------------------------------------------------
(* Life cycle *)

ModelUrls == {"undefined", "", "model.step"}

\* the components that hold a viewer
Components == {"AdvancedViewer", "CadProcessor"}

\* the listeners one run of the mount effect registers: the handlers are
\* closures of that run, the canvas is that of its instance
ListenersOf(owner) ==
    { <<owner, "canvas", "mousedown", "handleMouseDown">>,
      <<owner, "canvas", "mousemove", "handleMouseMove">>,
      <<owner, "canvas", "mouseup", "handleMouseUp">>,
      <<owner, "canvas", "mouseleave", "handleMouseUp">>,
      <<owner, "canvas", "wheel", "handleWheel">>,
      <<owner, "window", "resize", "handleResize">> }

\* those of this viewer
Listeners == ListenersOf(0)

\* the effect of the first render, with a WebGL context to be had; the two
\* components run the same effect, but CadProcessor always builds the default
\* model and then reports the viewer ready
Mount ==
    /\ phase = "rendered"
    /\ webgl
    /\ phase' = "mounted"
    /\ cameraPosition' = StartPosition
    /\ lookAtOrigin' = TRUE
    /\ updateSize(rect, devicePixelRatio)
    /\ listeners' = listeners \cup Listeners
    \* the model, and the first call of animateModel
    /\ nModels' = nModels + 1
    /\ scene' = WithYaw(IF component = "CadProcessor"
                        THEN WithDefaultModel(BaseScene, nModels + 1)
                        ELSE WithModel(modelUrl, BaseScene, nModels + 1),
                        nModels + 1, IdleStep)
    /\ gpu' = WithModelResources(gpu)
    \* the first call of animate
    /\ rafQueue' = rafQueue \o
                   << Callback(nextHandle, "animateModel", nModels + 1, IdleStep),
                      Callback(nextHandle + 1, "animate", 0, 0) >>
    /\ frameRef' = nextHandle + 1
    /\ nextHandle' = nextHandle + 2
    /\ renders' = renders + 1
    /\ renderedYaw' = IdleStep
    /\ isViewerReady' = (component = "CadProcessor")
    /\ UNCHANGED <<envVars, ctlVars, disposed, flagVars, inputBudgets,
                   sceneBudgets, awayRun, modeBudget, component, webgl, workspaceVars,
                   fullscreenVars, peer, peerBudget>>

\* the effect of the first render, with no WebGL context to be had: the
\* constructor of the renderer throws, before anything is registered or
\* requested; CadProcessor catches the error and reports the viewer ready,
\* AdvancedViewer lets it leave the effect
MountWithoutContext ==
    /\ phase = "rendered"
    /\ ~webgl
    /\ IF component = "CadProcessor"
       THEN phase' = "failed" /\ isViewerReady' = TRUE
       ELSE phase' = "crashed" /\ UNCHANGED isViewerReady
    /\ UNCHANGED <<envVars, ctlVars, camVars, sizeVars, disposed, flagVars, scene,
                   nModels, loopVars, listeners, inputBudgets, sceneBudgets,
                   awayRun, gpu, modeBudget, component, webgl, workspaceVars, fullscreenVars,
                   peer, peerBudget>>

\* the cleanup of the effect with the removal of the resize listener forgotten
Unmount_KeepsResize ==
    /\ phase = "mounted"
    /\ phase' = "unmounted"
    /\ rafQueue' = IF frameRef # 0
                   THEN SelectSeq(rafQueue, LAMBDA cb : cb.handle # frameRef)
                   ELSE rafQueue
    /\ listeners' = {l \in listeners : l \notin Listeners \/ l[3] = "resize"}
    /\ disposed' = TRUE
    /\ fullscreenElement' = "none"
    /\ UNCHANGED <<envVars, sizeVars, flagVars, scene, nModels, frameRef,
                   nextHandle, renders, renderedYaw, sceneBudgets, restOfCamera, gpu,
                   modeBudget, hostVars, workspaceVars, isFullscreen, peer, peerBudget>>

\* the cleanup of the effect: the pending call of animate cancelled, the six
\* listeners removed, the renderer disposed; the canvas leaves the document,
\* and with it the fullscreen it may have had
Unmount ==
    /\ phase = "mounted"
    /\ phase' = "unmounted"
    /\ rafQueue' = IF frameRef # 0
                   THEN SelectSeq(rafQueue, LAMBDA cb : cb.handle # frameRef)
                   ELSE rafQueue
    /\ listeners' = listeners \ Listeners
    /\ disposed' = TRUE
    /\ fullscreenElement' = "none"
    /\ UNCHANGED <<envVars, sizeVars, flagVars, scene, nModels, frameRef,
                   nextHandle, renders, renderedYaw, sceneBudgets, restOfCamera, gpu,
                   modeBudget, hostVars, workspaceVars, isFullscreen, peer, peerBudget>>

----------------------------------------------------------------------------
(* A second instance of AdvancedViewer in the same document: what it shares
   with this one is the window, whose resize listeners both register, and
   the queue of requestAnimationFrame.  Of its own state the model keeps the
   refs and the idle rotation of its displayed geometry. *)

NoPeer == [phase |-> "absent", generation |-> 0, frameRef |-> 0, renders |-> 0,
           yaw |-> 0]

\* the mount effect of a second instance; one mounted after an unmount is a
\* new instance, with refs and closures of its own
PeerMount ==
    /\ peerBudget > 0
    /\ peer.phase \in {"absent", "unmounted"}
    /\ peerBudget' = peerBudget - 1
    /\ peer' = [phase |-> "mounted", generation |-> peer.generation + 1,
                frameRef |-> nextHandle + 1, renders |-> 1, yaw |-> IdleStep]
    /\ listeners' = listeners \cup ListenersOf(peer.generation + 1)
    /\ rafQueue' = rafQueue \o
                   << Callback(nextHandle, "peer.animateModel",
                               peer.generation + 1, IdleStep),
                      Callback(nextHandle + 1, "peer.animate",
                               peer.generation + 1, 0) >>
    /\ nextHandle' = nextHandle + 2
    /\ UNCHANGED <<phase, envVars, sizeVars, disposed, flagVars, scene, nModels,
                   frameRef, renders, renderedYaw, sceneBudgets, restOfCamera, gpu, modeBudget,
                   hostVars, workspaceVars, fullscreenVars>>

\* the cleanup with the resize listeners removed by type, whoever's they are
PeerUnmount_RemovesByType ==
    /\ peer.phase = "mounted"
    /\ peer' = [peer EXCEPT !.phase = "unmounted"]
    /\ rafQueue' = IF peer.frameRef # 0
                   THEN SelectSeq(rafQueue, LAMBDA cb : cb.handle # peer.frameRef)
                   ELSE rafQueue
    /\ listeners' = {l \in listeners \ ListenersOf(peer.generation) :
                        l[3] # "resize"}
    /\ UNCHANGED <<phase, envVars, sizeVars, disposed, flagVars, scene, nModels,
                   frameRef, nextHandle, renders, renderedYaw, sceneBudgets, restOfCamera, gpu,
                   modeBudget, hostVars, workspaceVars, fullscreenVars, peerBudget>>

\* the cleanup of the effect of the second instance
PeerUnmount ==
    /\ peer.phase = "mounted"
    /\ peer' = [peer EXCEPT !.phase = "unmounted"]
    /\ rafQueue' = IF peer.frameRef # 0
                   THEN SelectSeq(rafQueue, LAMBDA cb : cb.handle # peer.frameRef)
                   ELSE rafQueue
    /\ listeners' = listeners \ ListenersOf(peer.generation)
    /\ UNCHANGED <<phase, envVars, sizeVars, disposed, flagVars, scene, nModels,
                   frameRef, nextHandle, renders, renderedYaw, sceneBudgets, restOfCamera, gpu,
                   modeBudget, hostVars, workspaceVars, fullscreenVars, peerBudget>>

----------------------------------------------------------------------------
(* A new model reference *)

\* the render with the mount effect run again for the new reference
Rerender_RunsEffect(url) ==
    /\ phase = "mounted"
    /\ component = "AdvancedViewer"
    /\ url # modelUrl
    /\ modelUrl' = url
    /\ nModels' = nModels + 1
    /\ scene' = WithYaw(WithModel(url, scene, nModels + 1), nModels + 1, IdleStep)
    /\ UNCHANGED <<phase, rect, devicePixelRatio, sizeVars, disposed, flagVars,
                   loopVars, listeners, sceneBudgets, restOfCamera, gpu,
                   modeBudget, sessionVars>>

\* the host passes another modelUrl (a model of the library was selected):
\* the component renders again, and its mount effect, whose dependency list
\* is empty, does not run again
Rerender(url) ==
    /\ phase = "mounted"
    /\ component = "AdvancedViewer"
    /\ url # modelUrl
    /\ modelUrl' = url
    /\ UNCHANGED <<phase, rect, devicePixelRatio, sizeVars, disposed, flagVars,
                   scene, nModels, loopVars, listeners, sceneBudgets,
                   restOfCamera, gpu, modeBudget, sessionVars>>

----------------------------------------------------------------------------
(* Fullscreen *)

\* toggleFullscreen: the request or the exit is made, its outcome is not
\* awaited, and the flag is negated; the platform grants the request or
\* denies it, and document.exitFullscreen leaves fullscreen if there is one
toggleFullscreen(granted) ==
    /\ phase = "mounted"
    /\ component = "AdvancedViewer"
    /\ fullscreenElement' =
          IF ~isFullscreen
          THEN (IF granted THEN "canvas" ELSE fullscreenElement)
          ELSE "none"
    /\ isFullscreen' = ~isFullscreen
    /\ UNCHANGED <<phase, envVars, sizeVars, disposed, flagVars, scene, nModels,
                   loopVars, listeners, sceneBudgets, restOfCamera, gpu,
                   modeBudget, hostVars, workspaceVars, peer, peerBudget>>

\* the user leaves fullscreen by the platform's own means (the Escape key);
\* the component has no listener for fullscreenchange
PlatformExitsFullscreen ==
    /\ phase = "mounted"
    /\ fullscreenElement = "canvas"
    /\ fullscreenElement' = "none"
    /\ UNCHANGED <<phase, envVars, sizeVars, disposed, flagVars, scene, nModels,
                   loopVars, listeners, sceneBudgets, restOfCamera, gpu,
                   modeBudget, hostVars, workspaceVars, isFullscreen, peer, peerBudget>>

----------------------------------------------------------------------------
(* View-state controller *)

\* loadModel / createDefaultModel on the mounted scene
replaceDisplayedGeometry(url) ==
    /\ phase = "mounted"
    /\ modelBudget > 0
    /\ modelBudget' = modelBudget - 1
    /\ nModels' = nModels + 1
    /\ scene' = WithYaw(WithModel(url, scene, nModels + 1), nModels + 1, IdleStep)
    /\ gpu' = WithModelResources(gpu)
    /\ rafQueue' = Append(rafQueue,
                          Callback(nextHandle, "animateModel", nModels + 1, IdleStep))
    /\ nextHandle' = nextHandle + 1
    /\ UNCHANGED <<phase, envVars, sizeVars, disposed, flagVars, frameRef, renders, renderedYaw,
                   listeners, frameBudget, restOfCamera, modeBudget, sessionVars>>

toggleViewMode ==
    /\ phase = "mounted"
    /\ modeBudget > 0
    /\ modeBudget' = modeBudget - 1
    /\ viewMode' = NextMode(viewMode)
    /\ scene' = [i \in DOMAIN scene |-> Traverse(scene[i], NextMode(viewMode))]
    \* every restyled mesh gets a material of its own; the one it had is
    \* not disposed
    /\ gpu' = [gpu EXCEPT !.materials = @ + RestyledCount(scene)]
    /\ UNCHANGED <<phase, envVars, sizeVars, disposed, showGrid, showAxes, nModels,
                   loopVars, listeners, sceneBudgets, restOfCamera, sessionVars>>

\* toggleGrid with the negation of the node's flag forgotten
toggleGrid_NoNegation ==
    /\ phase = "mounted"
    /\ LET i == IndexByName(scene, "grid")
       IN  IF i = 0
           THEN UNCHANGED <<scene, showGrid>>
           ELSE /\ scene' = [scene EXCEPT ![i].visible = showGrid]
                /\ showGrid' = ~showGrid
    /\ UNCHANGED <<phase, envVars, sizeVars, disposed, viewMode, showAxes, nModels,
                   loopVars, listeners, sceneBudgets, restOfCamera, gpu,
                   modeBudget, sessionVars>>

toggleGrid ==
    /\ phase = "mounted"
    /\ LET i == IndexByName(scene, "grid")
       IN  IF i = 0
           THEN UNCHANGED <<scene, showGrid>>
           ELSE /\ scene' = [scene EXCEPT ![i].visible = ~showGrid]
                /\ showGrid' = ~showGrid
    /\ UNCHANGED <<phase, envVars, sizeVars, disposed, viewMode, showAxes, nModels,
                   loopVars, listeners, sceneBudgets, restOfCamera, gpu,
                   modeBudget, sessionVars>>

\* toggleAxes that sets the flag and leaves the node alone
toggleAxes_FlagOnly ==
    /\ phase = "mounted"
    /\ showAxes' = ~showAxes
    /\ UNCHANGED <<phase, envVars, sizeVars, disposed, viewMode, showGrid, scene,
                   nModels, loopVars, listeners, sceneBudgets, restOfCamera, gpu,
                   modeBudget, sessionVars>>

toggleAxes ==
    /\ phase = "mounted"
    /\ LET i == IndexByName(scene, "axes")
       IN  IF i = 0
           THEN UNCHANGED <<scene, showAxes>>
           ELSE /\ scene' = [scene EXCEPT ![i].visible = ~showAxes]
                /\ showAxes' = ~showAxes
    /\ UNCHANGED <<phase, envVars, sizeVars, disposed, viewMode, showGrid, nModels,
                   loopVars, listeners, sceneBudgets, restOfCamera, gpu,
                   modeBudget, sessionVars>>

----------------------------------------------------------------------------
(* The workspace around the viewer, in demo mode *)

Panels == {"chat", "projects", "library"}

\* the ids demo-1 and demo-2 of the demo projects; a created project has the
\* id demo-<Date.now()>, modelled by the clock value, which is above both
DemoProjects == <<1, 2>>

\* the id '1' of the welcome message; a later message has the id
\* Date.now().toString(), modelled by the clock value
WelcomeMessages == <<1>>

\* Date.now() when the workspace is rendered
StartTime == 3

\* the milliseconds that can pass between two statements of one handler
Elapsed == {0, 1}

\* the messages a run of simulateDemoProcessing adds after its waits
StepsOfRun == 3

\* the workspace rendering the project list itself keeps it in its own state;
\* EnhancedCadProcessor leaves it to the ProjectManager of its sidebar
OwnsProjects == component = "CadProcessor"

\* prev => prev.filter(p => p.id !== projectId)
RECURSIVE WithoutProject(_, _)
WithoutProject(list, id) ==
    IF list = <<>>
    THEN <<>>
    ELSE IF Head(list) = id
         THEN WithoutProject(Tail(list), id)
         ELSE <<Head(list)>> \o WithoutProject(Tail(list), id)

\* setMessages(prev => [...prev, newMessage]) with id Date.now().toString()
addMessage(list, now) == Append(list, now)

\* the workspace after its first render and its demo-data effect
InitWorkspace(creates, runs) ==
    /\ activePanel = "chat"
    /\ projects = IF OwnsProjects THEN DemoProjects ELSE <<>>
    /\ currentProject = 0
    /\ messages = WelcomeMessages
    /\ clock = StartTime
    /\ pending = 0
    /\ createBudget = creates
    /\ runBudget = runs

\* simulateDemoProcessing up to its first wait: two messages added one after
\* the other, dt milliseconds apart
processImage(dt) ==
    /\ pending = 0
    /\ runBudget > 0
    /\ runBudget' = runBudget - 1
    /\ messages' = addMessage(addMessage(messages, clock), clock + dt)
    /\ pending' = StepsOfRun
    /\ clock' = clock + dt + 1
    /\ UNCHANGED <<activePanel, projects, currentProject, createBudget, viewerVars>>

\* simulateDemoProcessing resumed by a timer 2000 ms later: one more message
ProcessingContinues ==
    /\ pending > 0
    /\ pending' = pending - 1
    /\ messages' = addMessage(messages, clock)
    /\ clock' = clock + 1
    /\ UNCHANGED <<activePanel, projects, currentProject, createBudget, runBudget,
                   viewerVars>>

\* the panel buttons; the ProjectManager of EnhancedCadProcessor is rendered
\* in the projects panel only, and starts from the demo projects each time
setActivePanel(panel) ==
    /\ panel # activePanel
    /\ activePanel' = panel
    /\ projects' = IF OwnsProjects
                   THEN projects
                   ELSE IF panel = "projects" THEN DemoProjects ELSE <<>>
    /\ UNCHANGED <<currentProject, messages, clock, pending, createBudget,
                   runBudget, viewerVars>>

\* createProject of CadProcessor and of ProjectManager (onProjectSelect is
\* setCurrentProject)
createProject ==
    /\ activePanel = "projects"
    /\ createBudget > 0
    /\ createBudget' = createBudget - 1
    /\ projects' = <<clock>> \o projects
    /\ currentProject' = clock
    /\ clock' = clock + 1
    /\ UNCHANGED <<activePanel, messages, pending, runBudget, viewerVars>>

\* a click on the i-th project of the list
selectProject(i) ==
    /\ activePanel = "projects"
    /\ i \in DOMAIN projects
    /\ currentProject' = projects[i]
    /\ UNCHANGED <<activePanel, projects, messages, clock, pending, createBudget,
                   runBudget, viewerVars>>

\* the delete button of the i-th project of the list
deleteProject(i) ==
    /\ activePanel = "projects"
    /\ i \in DOMAIN projects
    /\ projects' = WithoutProject(projects, projects[i])
    /\ currentProject' = IF OwnsProjects /\ currentProject = projects[i]
                         THEN 0
                         ELSE currentProject
    /\ UNCHANGED <<activePanel, messages, clock, pending, createBudget, runBudget,
                   viewerVars>>

----------------------------------------------------------------------------
(* Specifications *)

\* the component after its first render, before its effect runs
InitViewer ==
    /\ phase = "rendered"
    /\ mouseX = 0
    /\ mouseY = 0
    /\ isMouseDown = FALSE
    /\ rotationX = 0
    /\ rotationY = 0
    /\ zoom = ZoomStart
    /\ cameraPosition = <<0, 0, 0>>
    /\ lookAtOrigin = FALSE
    /\ aspect = 1000
    /\ rendererSize = <<0, 0>>
    /\ pixelRatio = 1
    /\ disposed = FALSE
    /\ renders = 0
    /\ renderedYaw = 0
    /\ viewMode = "solid"
    /\ showGrid = TRUE
    /\ showAxes = TRUE
    /\ scene = <<>>
    /\ nModels = 0
    /\ frameRef = 0
    /\ rafQueue = <<>>
    /\ nextHandle = 1
    /\ listeners = {}
    /\ awayRun = 0
    /\ sized = FALSE
    /\ isViewerReady = FALSE
    /\ isFullscreen = FALSE
    /\ fullscreenElement = "none"
    /\ gpu = [geometries |-> 0, materials |-> 0]
    /\ peer = NoPeer

\* the wheel input of a run, <<events away, events toward>>: a long zoom-out,
\* a long zoom-in, or a short run of both directions in any order
WheelRuns == {<<MaxAway, 0>>, <<0, MaxToward>>, <<MaxMixed, MaxMixed>>}

InitCamera ==
    /\ InitViewer
    /\ modelUrl = "undefined"
    /\ rect = <<640, 480>>
    /\ devicePixelRatio = 1
    /\ moveBudget = MaxMove
    /\ \E w \in WheelRuns : awayBudget = w[1] /\ towardBudget = w[2]
    /\ frameBudget = 0
    /\ modelBudget = 0
    /\ modeBudget = 0
    /\ peerBudget = 0
    /\ component = "AdvancedViewer"
    /\ webgl = TRUE
    /\ InitWorkspace(0, 0)

InitScene ==
    /\ InitViewer
    /\ modelUrl \in ModelUrls
    /\ rect \in Rects
    /\ devicePixelRatio \in PixelRatios
    /\ moveBudget = 0
    /\ awayBudget = 0
    /\ towardBudget = 0
    /\ frameBudget = MaxFrames
    /\ modelBudget = MaxModels
    /\ modeBudget = MaxModes
    /\ peerBudget = 0
    /\ component = "AdvancedViewer"
    /\ webgl = TRUE
    /\ InitWorkspace(0, 0)

NextCamera ==
    \/ Mount
    \/ \E p \in Pointers : handleMouseDown(p[1], p[2])
    \/ \E p \in Pointers : handleMouseMove(p[1], p[2])
    \/ handleMouseUp
    \/ \E d \in WheelDeltas : handleWheel(d)
    \/ resetView

NextScene ==
    \/ Mount
    \/ Unmount
    \/ \E r \in Rects, d \in PixelRatios : handleResize(r, d)
    \/ Frame
    \/ \E url \in ModelUrls : replaceDisplayedGeometry(url)
    \/ toggleViewMode
    \/ toggleGrid
    \/ toggleAxes

\* a viewer of either component, with or without a WebGL context to be had
InitSession ==
    /\ InitViewer
    /\ modelUrl = "undefined"
    /\ rect = <<640, 480>>
    /\ devicePixelRatio = 1
    /\ moveBudget = 0
    /\ awayBudget = 0
    /\ towardBudget = 0
    /\ frameBudget = MaxFrames
    /\ modelBudget = 0
    /\ modeBudget = MaxModes
    /\ peerBudget = 0
    /\ component \in Components
    /\ webgl \in BOOLEAN
    /\ InitWorkspace(0, 0)

\* what this viewer is given to do beside a second instance: drags, wheel
\* events, frames, or changes of the scene
PairRuns ==
    { [moves |-> MaxMove, wheels |-> 0, frames |-> 0, changes |-> 0],
      [moves |-> 0, wheels |-> MaxPairWheel, frames |-> 0, changes |-> 0],
      [moves |-> 0, wheels |-> 0, frames |-> MaxPairFrames, changes |-> 0],
      [moves |-> 0, wheels |-> 0, frames |-> 0, changes |-> MaxPairModes] }

\* an AdvancedViewer beside which a second one is mounted and unmounted
InitPair ==
    /\ InitViewer
    /\ modelUrl = "undefined"
    /\ rect = <<640, 480>>
    /\ devicePixelRatio = 1
    /\ \E run \in PairRuns :
          /\ moveBudget = run.moves
          /\ awayBudget = run.wheels
          /\ towardBudget = run.wheels
          /\ frameBudget = run.frames
          /\ modelBudget = run.changes
          /\ modeBudget = run.changes
    /\ peerBudget = MaxPeerMounts
    /\ component = "AdvancedViewer"
    /\ webgl = TRUE
    /\ InitWorkspace(0, 0)

\* an AdvancedViewer that gets camera input between its frames
InitOrbit ==
    /\ InitViewer
    /\ modelUrl = "undefined"
    /\ rect = <<640, 480>>
    /\ devicePixelRatio = 1
    /\ moveBudget = MaxMove
    /\ awayBudget = MaxPairWheel
    /\ towardBudget = MaxPairWheel
    /\ frameBudget = MaxPairFrames
    /\ modelBudget = 0
    /\ modeBudget = 0
    /\ peerBudget = 0
    /\ component = "AdvancedViewer"
    /\ webgl = TRUE
    /\ InitWorkspace(0, 0)

NextOrbit ==
    \/ Mount
    \/ Frame
    \/ \E p \in Pointers : handleMouseDown(p[1], p[2])
    \/ \E p \in Pointers : handleMouseMove(p[1], p[2])
    \/ handleMouseUp
    \/ \E d \in WheelDeltas : handleWheel(d)
    \/ resetView

NextSession ==
    \/ Mount
    \/ MountWithoutContext
    \/ Unmount
    \/ Frame
    \/ toggleViewMode
    \/ \E granted \in BOOLEAN : toggleFullscreen(granted)
    \/ PlatformExitsFullscreen
    \/ \E url \in ModelUrls : Rerender(url)

NextPair ==
    \/ Mount
    \/ Unmount
    \/ PeerMount
    \/ PeerUnmount
    \/ Frame
    \/ \E p \in Pointers : handleMouseDown(p[1], p[2])
    \/ \E p \in Pointers : handleMouseMove(p[1], p[2])
    \/ handleMouseUp
    \/ \E d \in WheelDeltas : handleWheel(d)
    \/ resetView
    \/ \E url \in ModelUrls : replaceDisplayedGeometry(url)
    \/ toggleViewMode
    \/ toggleGrid
    \/ toggleAxes

\* the component after its first render, before its effect runs, in either
\* workspace
InitWorkspaceSpec ==
    /\ InitViewer
    /\ modelUrl = "undefined"
    /\ rect = <<640, 480>>
    /\ devicePixelRatio = 1
    /\ moveBudget = 0
    /\ awayBudget = 0
    /\ towardBudget = 0
    /\ frameBudget = 0
    /\ modelBudget = 0
    /\ modeBudget = 0
    /\ peerBudget = 0
    /\ component \in Components
    /\ webgl = TRUE
    /\ InitWorkspace(MaxCreates, MaxRuns)

NextWorkspace ==
    \/ \E dt \in Elapsed : processImage(dt)
    \/ ProcessingContinues
    \/ \E panel \in Panels : setActivePanel(panel)
    \/ createProject
    \/ \E i \in 1..(MaxCreates + 3) : selectProject(i)
    \/ \E i \in 1..(MaxCreates + 3) : deleteProject(i)

\* the camera rig: pointer and wheel input on a mounted viewer
SpecCamera == InitCamera /\ [][NextCamera]_vars

\* the scene, the view state and the frame loop of a viewer
SpecScene == InitScene /\ [][NextScene]_vars

\* the initialization of a viewer, with and without a WebGL context, and its
\* fullscreen state
SpecSession == InitSession /\ [][NextSession]_vars

\* camera input interleaved with the frames of the idle rotation
SpecOrbit == InitOrbit /\ [][NextOrbit]_vars

\* two viewers in one document
SpecPair == InitPair /\ [][NextPair]_vars

\* the chat and the projects of the workspace around the viewer
SpecWorkspace == InitWorkspaceSpec /\ [][NextWorkspace]_vars

----------------------------------------------------------------------------
(* Camera state: elevation and radius *)

\* C1 as stated: after any sequence of drags, zooms and resets the elevation
\* lies strictly inside (-pi/2.2, pi/2.2).
C1_ElevationOpen == 0 - ElevMax < rotationX /\ rotationX < ElevMax

\* C1, amended: after any sequence of drags, zooms and resets the elevation
\* lies in the closed interval [-pi/2.2, pi/2.2]; a drag that overshoots
\* leaves it on the bound itself.
C1_ElevationClosed == 0 - ElevMax <= rotationX /\ rotationX <= ElevMax

\* a drag has driven the elevation onto its upper bound
C1_Witness == rotationX = ElevMax /\ moveBudget < MaxMove /\ isMouseDown

\* C2: after any sequence of zooms, interleaved with drags and resets, the
\* radius lies in [3, 50].
C2_RadiusInRange == ZoomMin <= zoom /\ zoom <= ZoomMax

\* a long zoom-out, with a drag in it, has run into the ceiling
C2_Witness == zoom = ZoomMax /\ awayBudget = 0 /\ moveBudget < MaxMove

\* the camera rig as resetView leaves it
AtReset ==
    /\ rotationX = 0
    /\ rotationY = 0
    /\ zoom = ZoomStart
    /\ cameraPosition = StartPosition
    /\ lookAtOrigin

\* C3: reset from any reachable camera state yields azimuth 0, elevation 0,
\* radius 10 and the camera at (10,10,10) aimed at the origin, and a reset of
\* that state changes nothing of the camera rig.
C3_ResetIdempotent ==
    [][resetView => /\ AtReset'
                    /\ (AtReset => UNCHANGED <<ctlVars, camVars>>)]_vars

\* the camera was dragged by (+100 px, 0), the drag ended, and reset was called
C3_Witness ==
    /\ AtReset
    /\ moveBudget < MaxMove
    /\ ~isMouseDown
    /\ mouseX = 100
    /\ mouseY = 0

\* C10 as stated: five zoom(+1) in a row from radius 10 leave the radius
\* clamped at 50.
C10_FiveStepsClampAt50 == awayRun = 5 => zoom = ZoomMax

\* C10, amended: five zoom(+1) in a row from radius 10, each radius *= 1.1,
\* leave the radius at 10 * 1.1^5 = 16.1051, below the ceiling; the radius is
\* clamped at 50 from the 17th zoom(+1) in a row on, and is never beyond 50.
C10_FiveStepsBelowCeiling ==
    /\ awayRun = 5 => zoom = 161051
    /\ awayRun >= 17 => zoom = ZoomMax
    /\ zoom <= ZoomMax

\* five wheel-away events in a row from radius 10 have been handled
C10_Witness == awayRun = 5 /\ zoom < ZoomMax /\ zoom > ZoomStart

----------------------------------------------------------------------------
(* Scene graph and view state *)

\* the children of the scene that are displayed-geometry groups
CadModels == {i \in DOMAIN scene : scene[i].name = "cadModel"}

\* C4: after any sequence of replaceDisplayedGeometry calls, with or without a
\* model reference, exactly one group named cadModel is in the scene graph,
\* and it is the group of the last call: the previous one was removed.
C4_OneDisplayedGroup ==
    phase # "rendered" =>
        /\ Cardinality(CadModels) = 1
        /\ \A i \in CadModels : scene[i].id = nModels

\* the displayed geometry has been replaced twice after the mount
C4_Witness == phase = "mounted" /\ nModels = 3 /\ modelBudget = 0

\* C5: cycleViewMode advances the mode in the order solid, wireframe, points,
\* solid, so that three calls in a row return it to where it started.
C5_ModeCycle ==
    [][toggleViewMode =>
        /\ <<viewMode, viewMode'>> \in
              { <<"solid", "wireframe">>, <<"wireframe", "points">>,
                <<"points", "solid">> }
        /\ NextMode(NextMode(viewMode')) = viewMode]_vars

\* a full cycle has run: the mode is solid again, the meshes restyled
C5_Witness ==
    /\ viewMode = "solid"
    /\ \E i \in CadModels : scene[i].children[1].material = "solid"

\* C6: a cycleViewMode call leaves the grid and the axes nodes, and the
\* material of every node that is no mesh, unchanged; the meshes of the
\* displayed geometry get the material of the new mode.
C6_HelpersKeepMaterial ==
    [][toggleViewMode =>
        /\ Len(scene') = Len(scene)
        /\ \A i \in DOMAIN scene :
            /\ scene[i].name \in {"grid", "axes"} => scene'[i] = scene[i]
            /\ scene[i].type # "Mesh" => scene'[i].material = scene[i].material
            /\ scene[i].name = "cadModel" =>
                  \A k \in DOMAIN scene[i].children :
                      scene'[i].children[k].material = viewMode']_vars

\* the mode was cycled to wireframe: the meshes are restyled, the grid is not
C6_Witness ==
    /\ viewMode = "wireframe"
    /\ \E i \in CadModels : scene[i].children[4].material = "wireframe"
    /\ \E i \in DOMAIN scene :
          scene[i].name = "grid" /\ scene[i].material = "gridMaterial"

\* node.visible of the child of that name
Visible(name) == scene[IndexByName(scene, name)].visible

\* C7: each toggleGrid call negates the grid node's visibility and the
\* grid-visible flag, and each toggleAxes call those of the axes, so that two
\* calls in succession return both to their values before the first.
C7_ToggleTwiceRestores ==
    [][/\ toggleGrid => /\ showGrid' = ~showGrid
                        /\ Visible("grid")' = ~Visible("grid")
                        /\ UNCHANGED showAxes
                        /\ Visible("axes")' = Visible("axes")
       /\ toggleAxes => /\ showAxes' = ~showAxes
                        /\ Visible("axes")' = ~Visible("axes")
                        /\ UNCHANGED showGrid
                        /\ Visible("grid")' = Visible("grid")]_vars

\* both the grid and the axes have been toggled off
C7_Witness ==
    /\ phase = "mounted"
    /\ ~showGrid /\ ~Visible("grid")
    /\ ~showAxes /\ ~Visible("axes")

\* C8: in every state of a mounted viewer the grid node's visibility equals
\* the grid-visible flag and the axes node's visibility the axes-visible flag.
C8_FlagsInLockStep ==
    phase # "rendered" =>
        /\ IndexByName(scene, "grid") # 0
        /\ IndexByName(scene, "axes") # 0
        /\ Visible("grid") = showGrid
        /\ Visible("axes") = showAxes

\* the grid is toggled off, the axes are not
C8_Witness ==
    /\ phase = "mounted"
    /\ ~showGrid /\ ~Visible("grid")
    /\ showAxes /\ Visible("axes")

----------------------------------------------------------------------------
(* Zero-area container *)

\* C9 as stated: with a container of zero area, mount and resize skip the
\* size update (surface size and camera aspect stay as constructed) and
\* nothing is rendered until a resize with a non-zero area.
C9_ZeroAreaSkipsUpdate ==
    (phase = "mounted" /\ ~sized) =>
        /\ rendererSize = <<0, 0>>
        /\ aspect = 1000
        /\ renders = 0

\* C9, amended: with a container of zero area, mount and resize do not skip
\* the size update: a zero width counts as 800 and a zero height as 600, the
\* surface gets that size and the camera its aspect (there is no division by
\* zero), and the scene is rendered at mount and on every frame whatever the
\* area of the container.
C9_ZeroAreaFallsBack ==
    phase # "rendered" =>
        /\ rendererSize[1] = (IF rect[1] = 0 THEN 800 ELSE rect[1])
        /\ rendererSize[2] = (IF rect[2] = 0 THEN 600 ELSE rect[2])
        /\ aspect * rendererSize[2] <= 1000 * rendererSize[1]
        /\ 1000 * rendererSize[1] < (aspect + 1) * rendererSize[2]
        /\ renders >= 1
        /\ phase = "mounted" => renders = 1 + (MaxFrames - frameBudget)

\* a viewer mounted in a 0x0 container that was never resized to a non-zero
\* area has rendered two frames at 800x600
C9_Witness ==
    /\ phase = "mounted"
    /\ rect = <<0, 0>>
    /\ ~sized
    /\ rendererSize = <<800, 600>>
    /\ renders = 3

----------------------------------------------------------------------------
(* Fullscreen, unmount and the release of resources *)

\* C11 as stated: in every state of a mounted viewer the fullscreen flag
\* equals the platform's fullscreen state, also after a denied request and
\* after fullscreen was left by other means than toggleFullscreen.
C11_FlagMatchesPlatform ==
    (phase = "mounted" /\ component = "AdvancedViewer") =>
        (isFullscreen <=> fullscreenElement = "canvas")

\* C12 as stated: once the viewer is unmounted none of its animation-frame
\* callbacks runs or reschedules itself: nothing is rendered, the idle
\* rotation of its displayed geometry does not advance, and nothing of its
\* is requested for a later frame.
C12_NoCallbackAfterUnmount ==
    [][phase = "unmounted" =>
          /\ renders' = renders
          /\ scene' = scene
          /\ rafQueue' = rafQueue]_vars

\* the listeners this viewer registered
OwnListeners == {l \in listeners : l[1] = 0}

\* the listeners the second instance registered, whichever mount of it
PeerListeners == {l \in listeners : l[1] # 0}

\* C13: after any sequence of mounts and unmounts of two instances the
\* registered listeners are exactly those of the instances mounted now, six
\* for each: all that a mount registered are removed by its unmount.
C13_ListenersOfMounted ==
    /\ OwnListeners = (IF phase = "mounted" THEN Listeners ELSE {})
    /\ PeerListeners = (IF peer.phase = "mounted"
                        THEN ListenersOf(peer.generation) ELSE {})
    /\ Cardinality(listeners) =
          (IF phase = "mounted" THEN 6 ELSE 0)
          + (IF peer.phase = "mounted" THEN 6 ELSE 0)

\* this viewer was unmounted, the second instance unmounted and mounted anew
C13_Witness ==
    /\ phase = "unmounted"
    /\ peer.phase = "mounted"
    /\ peer.generation = 2
    /\ listeners = ListenersOf(2)

\* C14 as stated: on unmount the render target and every geometry and
\* material constructed for the displayed geometry, those of the view modes
\* included, are released; none is left.
C14_AllReleased ==
    phase = "unmounted" =>
        /\ disposed
        /\ gpu.geometries = 0
        /\ gpu.materials = 0

----------------------------------------------------------------------------
(* Failure of the initialization *)

\* C15 as stated: if no rendering context can be created at mount, the
\* failure does not leave the viewer component and the render loop is never
\* started.
C15_FailureContained ==
    ~webgl =>
        /\ phase # "crashed"
        /\ rafQueue = <<>>
        /\ frameRef = 0

\* C16 as stated: the reported state after a failed initialization is not
\* the one reported after a successful initialization.
C16_FailureIsReported ==
    /\ (phase = "mounted" /\ component = "CadProcessor") => isViewerReady
    /\ phase \in {"failed", "crashed"} => ~isViewerReady

----------------------------------------------------------------------------
(* Two instances *)

\* the callbacks in the queue that are this viewer's
OwnCallbacks == SelectSeq(rafQueue, LAMBDA cb : cb.fn \in {"animate", "animateModel"})

\* the callbacks in the queue that are the second instance's
PeerCallbacks ==
    SelectSeq(rafQueue, LAMBDA cb : cb.fn \in {"peer.animate", "peer.animateModel"})

----------------------------------------------------------------------------
(* Aim and start of the camera *)

\* C18 as stated: every zoom re-aims the camera at the origin, so that in
\* every state of a mounted viewer the camera looks at the origin.
C18_AimedAtOrigin == phase = "mounted" => lookAtOrigin

\* C19 as stated: at mount the azimuth, elevation and radius of the rig are
\* the spherical form of the starting position: converted to Cartesian
\* coordinates they give the camera position (10,10,10).
C19_StartIsSpherical ==
    [][Mount => /\ cameraPosition' = StartPosition
                /\ Target(rotationY', rotationX', zoom') = cameraPosition']_vars

----------------------------------------------------------------------------
(* Model reference *)

\* C20: whatever the model reference (absent, empty or a string), the scene
\* after mount holds the same placeholder, and loading by reference gives the
\* scene graph that building the placeholder without a reference gives.
C20_SamePlaceholder ==
    /\ \A url \in ModelUrls :
          WithModel(url, scene, nModels + 1) = WithDefaultModel(scene, nModels + 1)
    /\ (/\ phase = "mounted" /\ nModels = 1
        /\ frameBudget = MaxFrames /\ modeBudget = MaxModes
        /\ showGrid /\ showAxes)
       => scene = WithYaw(WithDefaultModel(BaseScene, 1), 1, IdleStep)

\* a viewer was mounted with a model reference and shows the placeholder
C20_Witness ==
    /\ phase = "mounted"
    /\ modelUrl = "model.step"
    /\ nModels = 1
    /\ \E i \in CadModels : scene[i] = [DefaultGroup(1) EXCEPT !.rotationY = IdleStep]

----------------------------------------------------------------------------
(* Frame ticks and the idle rotation *)

\* C21 as stated: every frame tick of a mounted viewer first renders the
\* scene, with the angle as it was, and then advances the angle of the
\* attached group by one increment of 0.005 rad.
C21_RenderThenAdvance ==
    [][(Frame /\ phase = "mounted") =>
          /\ renderedYaw' = Yaw(scene)
          /\ Yaw(scene') = Yaw(scene) + IdleStep]_vars

\* C21, amended: every frame tick advances the angle of the attached group by
\* exactly one increment of 0.005 rad and applies it as the group's yaw, and,
\* while the viewer is mounted, renders the scene exactly once; the two are
\* callbacks of their own, run in the order they were requested: for the
\* group built at mount the advance comes first and the render shows the
\* advanced angle, so that the angle is 0.005 times the number of renders;
\* for a group built later the render comes first.  After unmount a tick
\* still advances the angle and renders nothing.  The angle of a group never
\* decreases while the group stays attached.
C21_AdvanceAndRender ==
    [][/\ Frame =>
            /\ Yaw(scene') = Yaw(scene) + IdleStep
            /\ phase = "mounted" =>
                  /\ renders' = renders + 1
                  /\ renderedYaw' = (IF nModels = 1 THEN Yaw(scene') ELSE Yaw(scene))
            /\ phase = "unmounted" =>
                  /\ renders' = renders
                  /\ renderedYaw' = renderedYaw
       /\ (phase' = "mounted" /\ nModels' = 1) => Yaw(scene') = IdleStep * renders'
       /\ \A i \in DOMAIN scene, j \in DOMAIN scene' :
            (scene[i].name = "cadModel" /\ scene'[j].name = "cadModel"
             /\ scene[i].id = scene'[j].id)
            => scene'[j].rotationY >= scene[i].rotationY]_vars

\* two frames after the mount: three renders, the angle at three increments
C21_Witness ==
    /\ phase = "mounted"
    /\ nModels = 1
    /\ renders = 3
    /\ Yaw(scene) = 3 * IdleStep
    /\ renderedYaw = Yaw(scene)

\* C22: beginDrag, updateDrag, endDrag, zoom and reset leave the displayed
\* geometry and its pending rotation callback alone, so that under any
\* interleaving of them with frame ticks the angle after n ticks is what it
\* is with no camera input: 0.005 rad for the mount and for each tick.
C22_InputKeepsRotation ==
    [][/\ ~(Mount \/ Frame) => UNCHANGED <<scene, rafQueue>>
       /\ phase' = "mounted" =>
            Yaw(scene') = IdleStep * (1 + MaxPairFrames - frameBudget')]_vars

\* a drag, a wheel event of each direction and all the frames have happened
C22_Witness ==
    /\ phase = "mounted"
    /\ moveBudget = 0
    /\ awayBudget = 0
    /\ towardBudget = 0
    /\ frameBudget = 0
    /\ Yaw(scene) = IdleStep * (1 + MaxPairFrames)

----------------------------------------------------------------------------
(* Drag and zoom *)

\* C23: a pointer move received while no drag is active (before a beginDrag,
\* after an endDrag or a pointer-leave) leaves azimuth, elevation, radius,
\* camera position and the last-sampled pointer position unchanged, and an
\* endDrag while no drag is active changes nothing.
C23_MoveNeedsDrag ==
    [][/\ (~isMouseDown /\ \E p \in Pointers : handleMouseMove(p[1], p[2]))
            => UNCHANGED <<ctlVars, camVars>>
       /\ (~isMouseDown /\ handleMouseUp) => UNCHANGED vars]_vars

\* a drag has turned the camera and has ended: the moves that follow find no
\* drag active
C23_Witness ==
    /\ phase = "mounted"
    /\ ~isMouseDown
    /\ moveBudget < MaxMove
    /\ rotationY = 100 * 80
    /\ cameraPosition # StartPosition

\* C24: an updateDrag while dragging adds deltaX * 0.008 to the azimuth and
\* deltaY * 0.008 to the elevation, clamps the elevation, and moves the
\* camera to old + 0.1 (target - old), target being the Cartesian form of the
\* updated azimuth, elevation and radius: it does not reach the target in one
\* update.  A zoom sets the position to the target itself.
C24_DragStep ==
    [][/\ \A p \in Pointers :
            (isMouseDown /\ handleMouseMove(p[1], p[2])) =>
                LET target == Target(rotationY', rotationX', zoom)
                IN  /\ rotationY' = rotationY + (p[1] - mouseX) * 80
                    /\ rotationX' = Max(0 - ElevMax,
                                        Min(ElevMax,
                                            rotationX + (p[2] - mouseY) * 80))
                    /\ zoom' = zoom
                    /\ \A i \in 1..3 :
                          cameraPosition'[i] =
                             cameraPosition[i]
                             + (target[i] - cameraPosition[i]) \div 10
                    /\ cameraPosition # target => cameraPosition' # target
       /\ \A d \in WheelDeltas :
            handleWheel(d) =>
                cameraPosition' = Target(rotationY, rotationX, zoom')]_vars

\* a drag by (0, +200 px) is under way: the camera is between where it was
\* and its target
C24_Witness ==
    /\ isMouseDown
    /\ moveBudget < MaxMove
    /\ rotationX = ElevMax
    /\ mouseY = 200
    /\ cameraPosition # StartPosition
    /\ cameraPosition # Target(rotationY, rotationX, zoom)

\* p and q, in hundredths of a unit, have the same direction from the
\* origin: their cross product is zero up to the rounding of the
\* coordinates, and their scalar product is positive
SameDirection(p, q) ==
    LET a == [i \in 1..3 |-> p[i] \div 100]
        b == [i \in 1..3 |-> q[i] \div 100]
        Abs(x) == IF x < 0 THEN 0 - x ELSE x
        tolerance == Abs(a[1]) + Abs(a[2]) + Abs(a[3])
                     + Abs(b[1]) + Abs(b[2]) + Abs(b[3])
    IN  /\ Abs(a[2] * b[3] - a[3] * b[2]) <= tolerance
        /\ Abs(a[3] * b[1] - a[1] * b[3]) <= tolerance
        /\ Abs(a[1] * b[2] - a[2] * b[1]) <= tolerance
        /\ a[1] * b[1] + a[2] * b[2] + a[3] * b[3] > 0

\* C26 as stated: a zoom changes the distance of the camera from the origin
\* and not its direction: the position after the zoom lies on the ray from
\* the origin through the position before it.
C26_ZoomKeepsDirection ==
    [][(\E d \in WheelDeltas : handleWheel(d))
          => SameDirection(cameraPosition, cameraPosition')]_vars

\* C27 as stated: a wheel event with a vertical delta of zero leaves the
\* radius and the position of the camera unchanged; a positive delta zooms
\* out and a negative delta zooms in.
C27_ZeroDeltaNoZoom ==
    [][/\ handleWheel(0) => UNCHANGED <<zoom, cameraPosition>>
       /\ handleWheel(100) => zoom' >= zoom
       /\ handleWheel(0 - 100) => zoom' <= zoom]_vars

----------------------------------------------------------------------------
(* Materials of the view modes *)

\* the meshes of the group have the materials createDefaultModel gave them
OriginalMaterials(g) ==
    \A k \in DOMAIN g.children :
        Material(g.children[k].material)
            = Material(DefaultGroup(g.id).children[k].material)

\* C25 as stated: after three cycleViewMode calls in a row from solid mode
\* every mesh of the displayed geometry has the material (kind, color and
\* parameters) it had before: whenever the mode is solid the body, the
\* flanges and the bolt holes have their original materials.
C25_CycleRestoresMaterials ==
    (phase = "mounted" /\ viewMode = "solid") =>
        \A i \in CadModels : OriginalMaterials(scene[i])

----------------------------------------------------------------------------
(* A change of the model reference *)

\* C28: the displayed geometry is built once per mount: a change of the
\* model reference after the mount does not replace the displayed-geometry
\* group, does not restart its idle rotation, and changes neither the camera
\* state nor the view mode.
C28_BuiltOncePerMount ==
    [][/\ (\E url \in ModelUrls : Rerender(url)) =>
            UNCHANGED <<scene, nModels, rafQueue, gpu, ctlVars, camVars,
                        flagVars>>
       /\ phase' = "mounted" => nModels' = 1]_vars

\* the reference was changed after the mount, the group is the one built at
\* mount and its rotation has gone on
C28_Witness ==
    /\ phase = "mounted"
    /\ modelUrl = "model.step"
    /\ nModels = 1
    /\ \E i \in CadModels : scene[i].id = 1
    /\ Yaw(scene) = IdleStep * (1 + MaxFrames)

----------------------------------------------------------------------------
(* Chat messages and projects of the workspace *)

\* C29 as stated: every message of the message list has an id different from
\* the id of every other message of the list, whatever addMessage calls were
\* made, two calls within one millisecond included.
C29_MessageIdsUnique ==
    \A i, j \in DOMAIN messages : i # j => messages[i] # messages[j]

\* the current project is null or one of the projects on display
CurrentProjectListed ==
    \/ currentProject = 0
    \/ \E i \in DOMAIN projects : projects[i] = currentProject

\* C30 as stated: in both workspaces, while the project list is on display
\* the current project is none or one of the projects of the list, and
\* deleting the current project clears the selection.
C30_CurrentProjectListed ==
    /\ [](activePanel = "projects" => CurrentProjectListed)
    /\ [][\A i \in DOMAIN projects :
              deleteProject(i) /\ currentProject = projects[i]
                  => currentProject' = 0]_vars

====
